---- MODULE Spec2Model ----
(***************************************************************************)
(* Model of LLGL's RenderSystem factory and lifecycle                       *)
(* (sources/Renderer/RenderSystem.cpp), dynamic-library build               *)
(* (LLGL_BUILD_STATIC_LIB off, LLGL_EXCEPTIONS_SUPPORTED on).               *)
(*                                                                          *)
(* RenderSystem::Load and RenderSystem::Unload are modelled statement by    *)
(* statement: every thread has a position (pc) and a frame holding the      *)
(* locals of the call in progress.  The RenderSystemRegistry, the           *)
(* RenderSystemModule entry points, Report and ReportException are declared *)
(* outside RenderSystem.cpp; they are modelled from the specification.      *)
(***************************************************************************)
EXTENDS Integers, Sequences, FiniteSets, TLC

(* ------------------------------ bounds --------------------------------- *)

\* Number of heap addresses a RenderSystem object can be allocated at.
MaxInst == 3

\* Number of GetRendererInfo / GetRenderingCaps calls made on one object.
MaxCalls == 2

InstIds == 1..MaxInst

\* The RenderSystemPtr variables the caller holds.
Slots == {"first", "second"}

\* The threads of the process that call Load and Unload.
Threads == {"main", "worker"}

(* --------------------------- basic values ------------------------------ *)

\* nullptr of a RenderSystem* / RenderSystemPtr
NULL == 0

\* nullptr of a RenderSystemModule*
NullModule == "nullptr"

\* Host build ID the module's BuildID() is compared with
LLGL_BUILD_ID == 1

\* A text is a sequence of chunks: the chunk "%" is one percent character,
\* every other chunk is a run of characters without a percent character.
MsgBuildMismatch == <<"build ID mismatch in render system module">>
MsgNoDebugLayer == <<"LLGL was not compiled with debug layer support">>

(* ----------------- RenderSystemModule (backend modules) ---------------- *)

\* Module names a caller passes in RenderSystemDescriptor::moduleName:
\* two well-formed backends, one backend built with another compiler, and a
\* name no loadable unit exists for.
ModuleNames == {"OpenGL", "Vulkan", "Stale", "Missing"}

ModuleExists(name) == name \in {"OpenGL", "Vulkan", "Stale"}

BuildID(module) == IF module = "Stale" THEN LLGL_BUILD_ID + 1 ELSE LLGL_BUILD_ID

RendererName(module) == module

RendererID(module) ==
    CASE module = "OpenGL" -> 1
      [] module = "Vulkan" -> 2
      [] OTHER -> 3

\* Messages a module reports when its AllocRenderSystem fails.
ModuleMessages ==
    { <<"out of device memory">>,
      <<"heap 100", "%", "%", " used">>,
      <<"failed at 50", "%", " of init">> }

(* ------------------------------ Report --------------------------------- *)

EmptyReport == [text |-> <<>>, hasErrors |-> FALSE]

\* Report::Reset(text, hasErrors)
ReportReset(text, hasErrors) == [text |-> text, hasErrors |-> hasErrors]

\* Result of printf-formatting `fmt` from chunk i on with an empty argument
\* list: "%%" yields "%"; any other conversion reads an argument that was
\* never passed (ub).
RECURSIVE FormatFrom(_, _)
FormatFrom(fmt, i) ==
    IF i > Len(fmt) THEN [ub |-> FALSE, out |-> <<>>]
    ELSE IF fmt[i] # "%"
         THEN LET r == FormatFrom(fmt, i + 1)
              IN  [ub |-> r.ub, out |-> <<fmt[i]>> \o r.out]
    ELSE IF i + 1 <= Len(fmt) /\ fmt[i + 1] = "%"
         THEN LET r == FormatFrom(fmt, i + 2)
              IN  [ub |-> r.ub, out |-> <<"%">> \o r.out]
    ELSE [ub |-> TRUE, out |-> <<>>]

\* The texts LLGL_STRING_PRINTF(str, format) can produce when the call site
\* passes no variadic arguments.  A conversion without argument is undefined
\* behaviour: the result is any of the texts a build can print there.
StringPrintf(fmt) ==
    LET r == FormatFrom(fmt, 1)
    IN  IF r.ub THEN {fmt, <<>>, <<"(garbage)">>} ELSE {r.out}

\* ReportException(report, format, ...): formats the message, writes it to
\* the caller's Report when one was passed, and yields nullptr.
\* `sink` is [given |-> report # nullptr, report |-> *report].
ReportException(sink, text) ==
    IF sink.given
    THEN [sink EXCEPT !.report = ReportReset(text, TRUE)]
    ELSE sink

\* The degraded-capability message dropped instead of reported.
ReportErrorf_dropped(sink, text) == sink

\* if (report != nullptr) report->Errorf(...): Report::Errorf resets the
\* report to the text, marked as an error.
ReportErrorf(sink, text) ==
    IF sink.given
    THEN [sink EXCEPT !.report = ReportReset(text, TRUE)]
    ELSE sink

(* ------------------------ RenderSystemRegistry ------------------------- *)

\* modules[n]: number of native units resident for module name n,
\* refs[n]: live-instance count of n, entries[p]: module the RenderSystem at
\* address p was registered under.
EmptyRegistry ==
    [modules |-> [n \in ModuleNames |-> 0],
     refs    |-> [n \in ModuleNames |-> 0],
     entries |-> [p \in InstIds |-> NullModule]]

\* RenderSystemRegistry::LoadModule(name, report): the handle of the module
\* already loaded under that name, else a newly loaded one, else nullptr.
LoadModule(reg, name) ==
    IF reg.modules[name] > 0
    THEN [reg |-> reg, module |-> name]
    ELSE IF ModuleExists(name)
    THEN [reg |-> [reg EXCEPT !.modules[name] = 1], module |-> name]
    ELSE [reg |-> reg, module |-> NullModule]

\* Message LoadModule writes to the report when the name cannot be resolved.
MsgLoadFailed(name) == <<"failed to load module: ", name>>

\* RenderSystemRegistry::RegisterRenderSystem(renderSystem, module)
RegisterRenderSystem(reg, rs, module) ==
    IF rs # NULL /\ module # NullModule
    THEN [reg EXCEPT !.refs[module] = @ + 1, !.entries[rs] = module]
    ELSE reg

\* RenderSystemRegistry::UnregisterRenderSystem(renderSystem): drops the
\* entry, decrements the module's count, unloads the module at zero; a
\* pointer that was never registered is ignored.
UnregisterRenderSystem(reg, rs) ==
    IF rs # NULL /\ reg.entries[rs] # NullModule
    THEN LET m == reg.entries[rs]
             n == reg.refs[m] - 1
         IN  [reg EXCEPT !.entries[rs] = NullModule,
                         !.refs[m] = n,
                         !.modules[m] = IF n = 0 THEN 0 ELSE @]
    ELSE reg

(* ------------------------- RenderSystem objects ------------------------ *)

\* RenderSystem::Pimpl with its default member initializers
NewPimpl ==
    [rendererID |-> 0, name |-> "", hasInfo |-> FALSE, info |-> "",
     hasCaps |-> FALSE, caps |-> "", report |-> EmptyReport]

\* A heap address that holds no RenderSystem.
NoObject ==
    [alive |-> FALSE, kind |-> "none", inner |-> NULL, origin |-> NullModule,
     pimpl |-> NewPimpl]

\* RenderSystem::RenderSystem() of a backend's concrete render system, whose
\* code lives in `module`.
NewRenderSystem(module) ==
    [alive |-> TRUE, kind |-> "backend", inner |-> NULL, origin |-> module,
     pimpl |-> NewPimpl]

\* DbgRenderSystem{ std::move(renderSystem), debugger }: a RenderSystem of its
\* own (own Pimpl) that owns the wrapped instance.
NewDbgRenderSystem(instance) ==
    [alive |-> TRUE, kind |-> "debug", inner |-> instance, origin |-> NullModule,
     pimpl |-> NewPimpl]

\* Counters of accessor calls and backend queries per object, the number of
\* Errorf calls on it and the text the last of them formatted (observation).
NoProbe ==
    [infoCalls |-> 0, infoQueries |-> 0, infoOk |-> 0,
     capsCalls |-> 0, capsQueries |-> 0, capsOk |-> 0,
     errorfCalls |-> 0, lastErrorf |-> <<>>]

NoCalls == [BuildID |-> 0, AllocRenderSystem |-> 0, RendererName |-> 0, RendererID |-> 0]

NoSink == [given |-> FALSE, report |-> EmptyReport]

\* Locals of a thread that is in no call.  entry and entryAlive keep the
\* registry and the live objects as they were when the call began; stage is
\* the statement the call ended at, what the message the module failed with;
\* registered and unregistered list the pointers the call has passed to
\* RegisterRenderSystem and UnregisterRenderSystem.
IdleFrame ==
    [op |-> "none", slot |-> "first", moduleName |-> NullModule, debugger |-> FALSE,
     breakFlag |-> FALSE, sink |-> NoSink, module |-> NullModule,
     renderSystem |-> NULL, ref |-> NULL, dying |-> NULL, step |-> 0,
     entry |-> EmptyRegistry, entryAlive |-> {}, calls |-> NoCalls,
     threw |-> FALSE, escaped |-> FALSE, what |-> <<>>, stage |-> "none",
     result |-> NULL, afterLoad |-> FALSE,
     registered |-> <<>>, unregistered |-> <<>>]

\* The call completed last: its operation and the instance it returned.
NoCall == [op |-> "none", result |-> NULL]

VARIABLES
    debugLayer,   \* LLGL_ENABLE_DEBUG_LAYER of this build
    registry,     \* RenderSystemRegistry::Get()
    heap,         \* RenderSystem objects by address
    probe,        \* accessor/query counters by address
    debugger,     \* the RenderingDebugger the caller passes in descriptors
    handle,       \* the caller's RenderSystemPtr variables
    pc,           \* position of each thread
    frame,        \* locals of the call each thread is in
    last          \* the call completed last

vars == <<debugLayer, registry, heap, probe, debugger, handle, pc, frame, last>>

Init ==
    /\ debugLayer \in BOOLEAN
    /\ registry = EmptyRegistry
    /\ heap = [p \in InstIds |-> NoObject]
    /\ probe = [p \in InstIds |-> NoProbe]
    /\ debugger = [breakOnError |-> FALSE]
    /\ handle = [s \in Slots |-> NULL]
    /\ pc = [t \in Threads |-> "idle"]
    /\ frame = [t \in Threads |-> IdleFrame]
    /\ last = NoCall

\* Addresses at which a new object can be allocated.
FreeIds == {p \in InstIds : ~heap[p].alive}

AliveIds == {p \in InstIds : heap[p].alive}

\* The address operator new hands out: the lowest free one.
NewAddress(free) == CHOOSE p \in free : \A q \in free : p <= q

\* The innermost instance of the decorator chain starting at p.
RECURSIVE Innermost(_, _)
Innermost(h, p) ==
    IF p # NULL /\ h[p].kind = "debug" /\ h[p].inner # NULL
    THEN Innermost(h, h[p].inner)
    ELSE p

(* --------------------------- RenderSystem::Load ------------------------ *)

\* `return result;` at statement `stage`: the call is over, its result not
\* yet taken by the caller.
LoadDone(t, f, result, stage) ==
    /\ pc' = [pc EXCEPT ![t] = "Load_Done"]
    /\ frame' = [frame EXCEPT ![t] = [f EXCEPT !.result = result, !.stage = stage]]

\* The call and its first statement: LoadModule, and nullptr when the module
\* cannot be resolved.
Load_LoadModule(t, s, name, dbg, brk, given) ==
    /\ pc[t] = "idle"
    /\ handle[s] = NULL
    /\ LET r == LoadModule(registry, name)
           f == [IdleFrame EXCEPT !.op = "Load", !.slot = s, !.moduleName = name,
                                  !.debugger = dbg, !.breakFlag = brk,
                                  !.sink = [given |-> given, report |-> EmptyReport],
                                  !.module = r.module, !.entry = registry,
                                  !.entryAlive = AliveIds]
       IN  /\ registry' = r.reg
           /\ IF r.module = NullModule
              THEN LoadDone(t, [f EXCEPT !.sink = ReportException(f.sink, MsgLoadFailed(name))],
                            NULL, "LoadModule")
              ELSE /\ pc' = [pc EXCEPT ![t] = "Load_BuildID"]
                   /\ frame' = [frame EXCEPT ![t] = f]
    /\ UNCHANGED <<debugLayer, heap, probe, debugger, handle, last>>

\* The build-ID check with the comparison left out.
BuildIDMatches_unchecked(module) == TRUE

\* module->BuildID() != LLGL_BUILD_ID, negated
BuildIDMatches(module) == BuildID(module) = LLGL_BUILD_ID

Load_BuildID(t) ==
    /\ pc[t] = "Load_BuildID"
    /\ LET f == [frame[t] EXCEPT !.calls.BuildID = @ + 1]
       IN  IF BuildIDMatches(f.module)
           THEN /\ pc' = [pc EXCEPT ![t] = "Load_Alloc"]
                /\ frame' = [frame EXCEPT ![t] = f]
           ELSE \E text \in StringPrintf(MsgBuildMismatch) :
                    LoadDone(t, [f EXCEPT !.sink = ReportException(f.sink, text)],
                             NULL, "BuildID")
    /\ UNCHANGED <<debugLayer, registry, heap, probe, debugger, handle, last>>

\* Whether Load will wrap the allocated instance into a DbgRenderSystem.
Decorates(f) == f.debugger /\ debugLayer

\* catch (const std::exception& e) { return ReportException(report, e.what()); }
\* e.what() is passed as the format string.
ExceptionTexts(what) == StringPrintf(what)

\* module->AllocRenderSystem(renderSystemDesc, report) returns an instance.
Load_AllocOk(t) ==
    /\ pc[t] = "Load_Alloc"
    /\ Cardinality(FreeIds) >= (IF Decorates(frame[t]) THEN 2 ELSE 1)
    /\ LET p == NewAddress(FreeIds)
       IN  /\ heap' = [heap EXCEPT ![p] = NewRenderSystem(frame[t].module)]
           /\ frame' = [frame EXCEPT ![t].calls.AllocRenderSystem = @ + 1,
                                     ![t].renderSystem = p]
    /\ pc' = [pc EXCEPT ![t] = "Load_Debug"]
    /\ UNCHANGED <<debugLayer, registry, probe, debugger, handle, last>>

\* AllocRenderSystem returns nullptr; the module may have written its
\* message to the report it was passed.  Load returns the null pointer.
Load_AllocNull(t) ==
    /\ pc[t] = "Load_Alloc"
    /\ \E wrote \in BOOLEAN, what \in ModuleMessages :
          LET f == [frame[t] EXCEPT !.calls.AllocRenderSystem = @ + 1]
              g == IF wrote
                   THEN [f EXCEPT !.what = what, !.sink = ReportException(f.sink, what)]
                   ELSE f
          IN  LoadDone(t, g, NULL, "AllocRenderSystem")
    /\ UNCHANGED <<debugLayer, registry, heap, probe, debugger, handle, last>>

\* AllocRenderSystem throws std::exception; the handler reports e.what().
Load_AllocThrow(t) ==
    /\ pc[t] = "Load_Alloc"
    /\ \E what \in ModuleMessages :
          \E text \in ExceptionTexts(what) :
              LET f == [frame[t] EXCEPT !.calls.AllocRenderSystem = @ + 1,
                                        !.threw = TRUE, !.what = what]
              IN  LoadDone(t, [f EXCEPT !.sink = ReportException(f.sink, text)],
                           NULL, "AllocRenderSystem")
    /\ UNCHANGED <<debugLayer, registry, heap, probe, debugger, handle, last>>

\* if (renderSystemDesc.debugger != nullptr) { ... }
Load_Debug(t) ==
    /\ pc[t] = "Load_Debug"
    /\ LET f == frame[t]
       IN  IF ~f.debugger
           THEN UNCHANGED <<heap, frame, debugger>>
           ELSE IF debugLayer
           THEN /\ debugger' = IF f.breakFlag
                               THEN [debugger EXCEPT !.breakOnError = TRUE]
                               ELSE debugger
                /\ LET d == NewAddress(FreeIds)
                   IN  /\ heap' = [heap EXCEPT ![d] = NewDbgRenderSystem(f.renderSystem)]
                       /\ frame' = [frame EXCEPT ![t].renderSystem = d]
           ELSE /\ \E text \in StringPrintf(MsgNoDebugLayer) :
                      frame' = [frame EXCEPT ![t].sink = ReportErrorf(f.sink, text)]
                /\ UNCHANGED <<heap, debugger>>
    /\ pc' = [pc EXCEPT ![t] = "Load_Identify"]
    /\ UNCHANGED <<debugLayer, registry, probe, handle, last>>

\* Identity written with the assignments left out.
Identify_skipped(pimpl, module) == pimpl

\* renderSystem->pimpl_->name = module->RendererName();
\* renderSystem->pimpl_->rendererID = module->RendererID();
Identify(pimpl, module) ==
    [pimpl EXCEPT !.name = RendererName(module), !.rendererID = RendererID(module)]

Load_Identify(t) ==
    /\ pc[t] = "Load_Identify"
    /\ LET f == frame[t]
       IN  /\ heap' = [heap EXCEPT ![f.renderSystem].pimpl = Identify(@, f.module)]
           /\ frame' = [frame EXCEPT ![t].calls.RendererName = @ + 1,
                                     ![t].calls.RendererID = @ + 1]
    /\ pc' = [pc EXCEPT ![t] = "Load_Register"]
    /\ UNCHANGED <<debugLayer, registry, probe, debugger, handle, last>>

\* Registration of the wrapped backend instance instead of the object returned.
RegisteredPointer_innermost(h, rs) == Innermost(h, rs)

\* renderSystem.get() at the registration: the outermost object.
RegisteredPointer(h, rs) == rs

\* RegisterRenderSystem(renderSystem.get(), module); return renderSystem;
Load_Register(t) ==
    /\ pc[t] = "Load_Register"
    /\ registry.refs[frame[t].module] < MaxInst   \* bound of the count
    /\ LET f == frame[t]
           ptr == RegisteredPointer(heap, f.renderSystem)
       IN  /\ registry' = RegisterRenderSystem(registry, ptr, f.module)
           /\ LoadDone(t, [f EXCEPT !.registered = Append(@, ptr)],
                       f.renderSystem, "done")
    /\ UNCHANGED <<debugLayer, heap, probe, debugger, handle, last>>

\* The caller takes Load's result into its RenderSystemPtr variable.
Load_Return(t) ==
    /\ pc[t] = "Load_Done"
    /\ handle' = [handle EXCEPT ![frame[t].slot] = frame[t].result]
    /\ last' = [op |-> "Load", result |-> frame[t].result]
    /\ pc' = [pc EXCEPT ![t] = "idle"]
    /\ frame' = [frame EXCEPT ![t] = IdleFrame]
    /\ UNCHANGED <<debugLayer, registry, heap, probe, debugger>>

(* -------------------------- RenderSystem::Unload ----------------------- *)

\* Unload with the module released before the render system is deleted.
UnloadOrder_moduleFirst == <<"unregister", "reset">>

\* Unload that releases the module and leaves the caller's pointer as it is.
UnloadOrder_noReset == <<"unregister">>

\* The statements of Unload's body in program order.
UnloadOrder == <<"reset", "unregister">>

\* Unregister with the pointer read from the handle at the time of the call.
UnregisterArg_fromHandle(ref, current) == current

\* The pointer Unload passes to UnregisterRenderSystem: renderSystemRef, taken
\* before the reset (`current` is renderSystem.get() at the time of the call).
UnregisterArg(ref, current) == ref

UnloadDone(t, f) ==
    /\ pc' = [pc EXCEPT ![t] = "Unload_Done"]
    /\ frame' = [frame EXCEPT ![t] = f]

\* if (RenderSystem* renderSystemRef = renderSystem.get())
Unload_Call(t, s) ==
    /\ pc[t] = "idle"
    /\ LET ref == handle[s]
           f == [IdleFrame EXCEPT !.op = "Unload", !.slot = s, !.ref = ref,
                                  !.dying = ref, !.step = 1,
                                  !.module = IF ref = NULL THEN NullModule
                                             ELSE registry.entries[ref],
                                  !.entry = registry, !.entryAlive = AliveIds,
                                  !.afterLoad = (ref # NULL /\ last.op = "Load"
                                                 /\ last.result = ref)]
       IN  IF ref = NULL
           THEN UnloadDone(t, f)
           ELSE /\ pc' = [pc EXCEPT ![t] = "Unload_Step"]
                /\ frame' = [frame EXCEPT ![t] = f]
    /\ UNCHANGED <<debugLayer, registry, heap, probe, debugger, handle, last>>

\* One statement of the body: renderSystem.reset() destroys the chain from
\* the outermost object inwards (one object per step).
Unload_Step(t) ==
    /\ pc[t] = "Unload_Step"
    /\ LET f == frame[t]
           stmt == UnloadOrder[f.step]
           more == stmt = "reset" /\ heap[f.dying].kind = "debug"
                                  /\ heap[f.dying].inner # NULL
           arg == UnregisterArg(f.ref, handle[f.slot])
           g == IF more THEN [f EXCEPT !.dying = heap[f.dying].inner]
                ELSE IF stmt = "reset"
                THEN [f EXCEPT !.step = @ + 1, !.dying = NULL]
                ELSE [f EXCEPT !.step = @ + 1,
                               !.unregistered = Append(@, arg)]
       IN  /\ IF stmt = "reset"
              THEN /\ heap' = [heap EXCEPT ![f.dying] = NoObject]
                   /\ probe' = [probe EXCEPT ![f.dying] = NoProbe]
                   /\ handle' = [handle EXCEPT ![f.slot] = NULL]
                   /\ UNCHANGED registry
              ELSE /\ registry' = UnregisterRenderSystem(registry, arg)
                   /\ UNCHANGED <<heap, probe, handle>>
           /\ IF g.step > Len(UnloadOrder)
              THEN UnloadDone(t, g)
              ELSE /\ frame' = [frame EXCEPT ![t] = g]
                   /\ UNCHANGED pc
    /\ UNCHANGED <<debugLayer, debugger, last>>

\* Unload returns to the caller.
Unload_Return(t) ==
    /\ pc[t] = "Unload_Done"
    /\ last' = [op |-> "Unload", result |-> NULL]
    /\ pc' = [pc EXCEPT ![t] = "idle"]
    /\ frame' = [frame EXCEPT ![t] = IdleFrame]
    /\ UNCHANGED <<debugLayer, registry, heap, probe, debugger, handle>>

(* ------------------------ lazily cached accessors ---------------------- *)

\* What the backend's QueryRendererDetails writes for the instance at p.
QueriedDetails(p) == heap[Innermost(heap, p)].origin

\* GetRendererInfo with the flag set whatever the query returned.
InfoAfterQuery_alwaysCached(pimpl, ok, details) ==
    [pimpl EXCEPT !.hasInfo = TRUE, !.info = IF ok THEN details ELSE @]

\* if (QueryRendererDetails(&(pimpl_->info), nullptr)) pimpl_->hasInfo = true;
InfoAfterQuery(pimpl, ok, details) ==
    IF ok THEN [pimpl EXCEPT !.hasInfo = TRUE, !.info = details] ELSE pimpl

\* GetRenderingCaps whose query also invalidates the cached renderer info.
CapsAfterQuery_resetsInfo(pimpl, ok, details) ==
    IF ok THEN [pimpl EXCEPT !.hasCaps = TRUE, !.caps = details,
                             !.hasInfo = FALSE, !.info = ""]
    ELSE pimpl

\* if (QueryRendererDetails(nullptr, &(pimpl_->caps))) pimpl_->hasCaps = true;
CapsAfterQuery(pimpl, ok, details) ==
    IF ok THEN [pimpl EXCEPT !.hasCaps = TRUE, !.caps = details] ELSE pimpl

GetRendererInfo(t, s) ==
    /\ pc[t] = "idle"
    /\ handle[s] # NULL
    /\ probe[handle[s]].infoCalls < MaxCalls
    /\ LET p == handle[s]
       IN  IF ~heap[p].pimpl.hasInfo
           THEN \E ok \in BOOLEAN :
                   /\ heap' = [heap EXCEPT ![p].pimpl = InfoAfterQuery(@, ok, QueriedDetails(p))]
                   /\ probe' = [probe EXCEPT ![p].infoCalls = @ + 1,
                                             ![p].infoQueries = @ + 1,
                                             ![p].infoOk = @ + (IF ok THEN 1 ELSE 0)]
           ELSE /\ probe' = [probe EXCEPT ![p].infoCalls = @ + 1]
                /\ UNCHANGED heap
    /\ UNCHANGED <<debugLayer, registry, debugger, handle, pc, frame, last>>

GetRenderingCaps(t, s) ==
    /\ pc[t] = "idle"
    /\ handle[s] # NULL
    /\ probe[handle[s]].capsCalls < MaxCalls
    /\ LET p == handle[s]
       IN  IF ~heap[p].pimpl.hasCaps
           THEN \E ok \in BOOLEAN :
                   /\ heap' = [heap EXCEPT ![p].pimpl = CapsAfterQuery(@, ok, QueriedDetails(p))]
                   /\ probe' = [probe EXCEPT ![p].capsCalls = @ + 1,
                                             ![p].capsQueries = @ + 1,
                                             ![p].capsOk = @ + (IF ok THEN 1 ELSE 0)]
           ELSE /\ probe' = [probe EXCEPT ![p].capsCalls = @ + 1]
                /\ UNCHANGED heap
    /\ UNCHANGED <<debugLayer, registry, debugger, handle, pc, frame, last>>

(* ---------------------------- specification ---------------------------- *)

\* Load and Unload calls, one at a time, with every descriptor.
Lifecycle(t) ==
    \/ \E s \in Slots, name \in ModuleNames, dbg \in BOOLEAN,
          brk \in BOOLEAN, given \in BOOLEAN :
            Load_LoadModule(t, s, name, dbg, brk, given)
    \/ Load_BuildID(t)
    \/ Load_AllocOk(t)
    \/ Load_AllocNull(t)
    \/ Load_AllocThrow(t)
    \/ Load_Debug(t)
    \/ Load_Identify(t)
    \/ Load_Register(t)
    \/ Load_Return(t)
    \/ \E s \in Slots : Unload_Call(t, s)
    \/ Unload_Step(t)
    \/ Unload_Return(t)

\* The calls of one thread.
Next == \E t \in {"main"} : Lifecycle(t)

Spec == Init /\ [][Next]_vars

\* One RenderSystemPtr loaded from a well-formed module (decorated or not),
\* queried through both accessors, and unloaded.
NextAccessors ==
    \E t \in {"main"} :
        \/ \E name \in {"OpenGL", "Vulkan"}, dbg \in BOOLEAN :
              Load_LoadModule(t, "first", name, dbg, FALSE, FALSE)
        \/ Load_BuildID(t)
        \/ Load_AllocOk(t)
        \/ Load_Debug(t)
        \/ Load_Identify(t)
        \/ Load_Register(t)
        \/ Load_Return(t)
        \/ Unload_Call(t, "first")
        \/ Unload_Step(t)
        \/ Unload_Return(t)
        \/ GetRendererInfo(t, "first")
        \/ GetRenderingCaps(t, "first")

SpecAccessors == Init /\ [][NextAccessors]_vars

(* ======================= properties of the lifecycle =================== *)

\* int RenderSystem::GetRendererID() const
GetRendererID(p) == heap[p].pimpl.rendererID

\* const char* RenderSystem::GetName() const
GetName(p) == heap[p].pimpl.name

InLoad(t) == frame[t].op = "Load"
LoadEnded(t) == pc[t] = "Load_Done"
UnloadEnded(t) == pc[t] = "Unload_Done"

\* C1: no module is unloaded while an Instance produced by it is alive.  In
\* every state, a live backend instance has its module resident and a live
\* decorator still has the instance it wraps (destruction runs outermost
\* first); when Unload reaches the unregister call, every object of the
\* unloaded chain has been destroyed and the call gets the address taken
\* before the destruction.
C1_DestroyBeforeUnregister ==
    /\ \A p \in InstIds :
          /\ (heap[p].alive /\ heap[p].kind = "backend")
                => registry.modules[heap[p].origin] >= 1
          /\ (heap[p].alive /\ heap[p].kind = "debug") => heap[heap[p].inner].alive
    /\ \A t \in Threads :
          (pc[t] = "Unload_Step" /\ UnloadOrder[frame[t].step] = "unregister")
             => /\ ~heap[frame[t].ref].alive
                /\ handle[frame[t].slot] = NULL
                /\ UnregisterArg(frame[t].ref, handle[frame[t].slot]) = frame[t].ref
                /\ registry = frame[t].entry
                /\ Cardinality(frame[t].entryAlive \ AliveIds) >= 1
                /\ \A q \in frame[t].entryAlive \ AliveIds :
                      registry.entries[q] # NullModule => q = frame[t].ref

\* C1 witness: an Unload destroyed a decorated instance (two objects), then
\* unregistered it, and the module was unloaded.
C1_Witness ==
    \E t \in Threads :
        /\ UnloadEnded(t)
        /\ frame[t].ref # NULL
        /\ Cardinality(frame[t].entryAlive \ AliveIds) = 2
        /\ frame[t].entry.modules[frame[t].module] = 1
        /\ registry.modules[frame[t].module] = 0

\* C2: a Load whose resolved module carries a build ID other than the host's
\* ends at the build-ID check with no Instance and the build-mismatch message
\* in the caller's report, and at no point of that Load has it called the
\* module's AllocRenderSystem, RendererName or RendererID.
C2_MismatchCallsNothing ==
    \A t \in Threads :
        (InLoad(t) /\ frame[t].module # NullModule
                   /\ BuildID(frame[t].module) # LLGL_BUILD_ID)
           => /\ pc[t] \in {"Load_BuildID", "Load_Done"}
              /\ frame[t].calls.AllocRenderSystem = 0
              /\ frame[t].calls.RendererName = 0
              /\ frame[t].calls.RendererID = 0
              /\ frame[t].renderSystem = NULL
              /\ LoadEnded(t)
                    => /\ frame[t].stage = "BuildID"
                       /\ frame[t].result = NULL
                       /\ frame[t].calls.BuildID = 1
                       /\ frame[t].sink.given
                             => frame[t].sink.report = ReportReset(MsgBuildMismatch, TRUE)

\* C2 witness: a Load of the module with the foreign build ID has ended, with
\* a report sink supplied.
C2_Witness ==
    \E t \in Threads :
        /\ LoadEnded(t)
        /\ frame[t].moduleName = "Stale"
        /\ frame[t].stage = "BuildID"
        /\ frame[t].sink.given

\* C3 (as claimed): a Load that ended at the module resolution or at the
\* build-ID check has allocated no Instance and left no module resident that
\* was not resident before the call.
C3_FailedLoadLeavesRegistry ==
    \A t \in Threads :
        (LoadEnded(t) /\ frame[t].stage \in {"LoadModule", "BuildID"})
           => /\ frame[t].result = NULL
              /\ AliveIds = frame[t].entryAlive
              /\ \A n \in ModuleNames :
                    registry.modules[n] > 0 => frame[t].entry.modules[n] > 0

\* C4 (as claimed): an Unload that immediately follows the successful Load of
\* the same Instance leaves the module's count at zero and the module not
\* resident.
C4_LoadUnloadLeavesZero ==
    \A t \in Threads :
        (UnloadEnded(t) /\ frame[t].afterLoad)
           => /\ registry.refs[frame[t].module] = 0
              /\ registry.modules[frame[t].module] = 0

\* C4 (amended): an Unload that immediately follows the successful Load of
\* the same Instance leaves the module's count one lower than it found it;
\* when the Instance was the module's only live one the count is zero and
\* the module is no longer resident, otherwise the module stays resident.
C4_LoadUnloadRestores ==
    \A t \in Threads :
        (UnloadEnded(t) /\ frame[t].afterLoad)
           => LET m == frame[t].module
              IN  /\ m # NullModule
                  /\ registry.refs[m] = frame[t].entry.refs[m] - 1
                  /\ registry.entries[frame[t].ref] = NullModule
                  /\ frame[t].entry.refs[m] = 1
                        => registry.refs[m] = 0 /\ registry.modules[m] = 0
                  /\ frame[t].entry.refs[m] > 1 => registry.modules[m] = 1

\* C4 witness: Load then Unload of the only Instance of a module has ended and
\* the module is gone.
C4_Witness ==
    \E t \in Threads :
        /\ UnloadEnded(t)
        /\ frame[t].afterLoad
        /\ frame[t].entry.refs[frame[t].module] = 1
        /\ registry.modules[frame[t].module] = 0

\* C5: every module is resident at most once.  A successful Load of a module
\* that already has a live Instance returns an object distinct from every
\* live one, resolves to the module already resident and raises its count by
\* one; an Unload that finds two Instances of the module leaves it resident
\* with count one, an Unload that finds only one unloads it.
C5_TwoLoadsOneModule ==
    /\ \A n \in ModuleNames : registry.modules[n] <= 1
    /\ \A t \in Threads :
          (LoadEnded(t) /\ frame[t].result # NULL
                        /\ frame[t].entry.refs[frame[t].module] >= 1)
             => LET m == frame[t].module
                IN  /\ frame[t].result \notin frame[t].entryAlive
                    /\ frame[t].entry.modules[m] = 1
                    /\ registry.modules[m] = 1
                    /\ registry.refs[m] = frame[t].entry.refs[m] + 1
    /\ \A t \in Threads :
          (UnloadEnded(t) /\ frame[t].ref # NULL)
             => LET m == frame[t].module
                IN  /\ m # NullModule
                    /\ frame[t].entry.refs[m] = 2
                          => registry.modules[m] = 1 /\ registry.refs[m] = 1
                    /\ frame[t].entry.refs[m] = 1
                          => registry.modules[m] = 0 /\ registry.refs[m] = 0

\* C5 witness: two Instances of one module are held, one of them decorated,
\* and the module is resident once with count two.
C5_Witness ==
    /\ \A t \in Threads : pc[t] = "idle"
    /\ handle["first"] # NULL /\ handle["second"] # NULL
    /\ handle["first"] # handle["second"]
    /\ registry.entries[handle["first"]] = "OpenGL"
    /\ registry.entries[handle["second"]] = "OpenGL"
    /\ heap[handle["second"]].kind = "debug"
    /\ registry.modules["OpenGL"] = 1
    /\ registry.refs["OpenGL"] = 2

\* The Instances the caller holds that were registered under module n.
HeldOf(n) == {s \in Slots : handle[s] # NULL /\ registry.entries[handle[s]] = n}

\* C6 (as claimed): between calls, every module is resident at most once and
\* resident exactly when its count is above zero, the count being the number
\* of Instances loaded from it and not yet unloaded.
C6_ResidentIffCounted ==
    (\A t \in Threads : pc[t] = "idle")
       => \A n \in ModuleNames :
             /\ registry.modules[n] <= 1
             /\ registry.refs[n] = Cardinality(HeldOf(n))
             /\ (registry.modules[n] = 1) <=> (registry.refs[n] > 0)

(* ======================= properties of the accessors ================== *)

\* C7: for each accessor, while no query has succeeded every call has
\* queried the backend (queries = calls, flag unset); once one has succeeded
\* the flag is set, exactly one query has succeeded, and a further call
\* queries nothing.  A failed query never sets the flag.
C7_QueriesOnceAfterSuccess ==
    /\ [](\A p \in InstIds :
            /\ heap[p].pimpl.hasInfo <=> probe[p].infoOk = 1
            /\ probe[p].infoOk <= 1
            /\ probe[p].infoQueries <= probe[p].infoCalls
            /\ ~heap[p].pimpl.hasInfo => probe[p].infoQueries = probe[p].infoCalls
            /\ heap[p].pimpl.hasCaps <=> probe[p].capsOk = 1
            /\ probe[p].capsOk <= 1
            /\ probe[p].capsQueries <= probe[p].capsCalls
            /\ ~heap[p].pimpl.hasCaps => probe[p].capsQueries = probe[p].capsCalls)
    /\ [][\A p \in InstIds :
            /\ (heap[p].pimpl.hasInfo /\ probe'[p].infoCalls > probe[p].infoCalls)
                  => probe'[p].infoQueries = probe[p].infoQueries
            /\ (heap[p].pimpl.hasCaps /\ probe'[p].capsCalls > probe[p].capsCalls)
                  => probe'[p].capsQueries = probe[p].capsQueries
            /\ (~heap[p].pimpl.hasInfo /\ probe'[p].infoCalls > probe[p].infoCalls)
                  => probe'[p].infoQueries = probe[p].infoQueries + 1
            /\ (~heap[p].pimpl.hasCaps /\ probe'[p].capsCalls > probe[p].capsCalls)
                  => probe'[p].capsQueries = probe[p].capsQueries + 1]_vars

\* C7 witness: on one decorated Instance GetRendererInfo was called twice with
\* one query (success, then the cached value) and GetRenderingCaps was called
\* twice with two queries, the first of which failed.
C7_Witness ==
    \E p \in InstIds :
        /\ heap[p].alive /\ heap[p].kind = "debug"
        /\ probe[p].infoCalls = 2 /\ probe[p].infoQueries = 1
        /\ heap[p].pimpl.hasInfo
        /\ probe[p].capsCalls = 2 /\ probe[p].capsQueries = 2
        /\ probe[p].capsOk = 1

(* ================== properties of the factory's failures =============== *)

\* C8 (as claimed): a Load whose AllocRenderSystem failed (returned nullptr or
\* threw) returns no Instance, registers nothing, lets no exception of the
\* module escape, and the message in the caller's report is the text the
\* module failed with.
C8_AllocFailureKeepsMessage ==
    \A t \in Threads :
        (LoadEnded(t) /\ frame[t].stage = "AllocRenderSystem")
           => /\ frame[t].result = NULL
              /\ AliveIds = frame[t].entryAlive
              /\ registry.refs = frame[t].entry.refs
              /\ registry.entries = frame[t].entry.entries
              /\ ~frame[t].escaped
              /\ (frame[t].sink.given /\ frame[t].what # <<>>)
                    => frame[t].sink.report = ReportReset(frame[t].what, TRUE)

\* C9: on a build without the debug layer, a Load whose descriptor names a
\* debugger and whose allocation succeeded ends with an Instance that is the
\* backend's own object (no decorator), carries the module's name and id, is
\* registered under the module, and the caller's report, when supplied,
\* holds the debug-layer message.
C9_DegradedStillLoads ==
    \A t \in Threads :
        (LoadEnded(t) /\ frame[t].debugger /\ ~debugLayer
                      /\ frame[t].calls.AllocRenderSystem = 1
                      /\ frame[t].stage # "AllocRenderSystem")
           => LET p == frame[t].result
                  m == frame[t].module
              IN  /\ frame[t].stage = "done"
                  /\ p # NULL
                  /\ heap[p].alive
                  /\ heap[p].kind = "backend"
                  /\ heap[p].origin = m
                  /\ GetName(p) = RendererName(m)
                  /\ GetRendererID(p) = RendererID(m)
                  /\ registry.entries[p] = m
                  /\ registry.refs[m] = frame[t].entry.refs[m] + 1
                  /\ frame[t].sink.given
                        => frame[t].sink.report.text = MsgNoDebugLayer

\* C9 witness: such a Load has ended with a report sink supplied.
C9_Witness ==
    \E t \in Threads :
        /\ LoadEnded(t)
        /\ frame[t].debugger /\ ~debugLayer
        /\ frame[t].result # NULL
        /\ frame[t].sink.given
        /\ frame[t].sink.report.text = MsgNoDebugLayer

\* C10: every Instance a Load has returned, decorated or not, exposes through
\* GetName and GetRendererID the name and id of the module it was resolved
\* from, which is the module that produced the innermost instance of its
\* chain; and no step changes the name or id an Instance held by the caller
\* exposes.
C10_IdentityOfModule ==
    /\ [](\A t \in Threads :
            (LoadEnded(t) /\ frame[t].result # NULL)
               => LET p == frame[t].result
                  IN  /\ GetName(p) = RendererName(frame[t].module)
                      /\ GetRendererID(p) = RendererID(frame[t].module)
                      /\ heap[Innermost(heap, p)].origin = frame[t].module
                      /\ heap[Innermost(heap, p)].kind = "backend")
    /\ [](\A s \in Slots :
            handle[s] # NULL
               => LET p == handle[s]
                      m == heap[Innermost(heap, p)].origin
                  IN  /\ GetName(p) = RendererName(m)
                      /\ GetRendererID(p) = RendererID(m))
    /\ [][\A s \in Slots :
            (handle[s] # NULL /\ handle'[s] = handle[s])
               => /\ heap'[handle[s]].pimpl.name = heap[handle[s]].pimpl.name
                  /\ heap'[handle[s]].pimpl.rendererID
                        = heap[handle[s]].pimpl.rendererID]_vars

\* C10 witness: the caller holds a decorated Vulkan Instance and an
\* undecorated OpenGL Instance.
C10_Witness ==
    /\ handle["first"] # NULL /\ handle["second"] # NULL
    /\ heap[handle["first"]].kind = "debug"
    /\ GetName(handle["first"]) = "Vulkan"
    /\ heap[handle["second"]].kind = "backend"
    /\ GetRendererID(handle["second"]) = 1

(* ===================== descriptor validation helpers =================== *)

\* Largest buffer size limit (maxSize) passed to AssertCreateBuffer.
MaxBufferSize == 2

\* Longest resource array passed to AssertCreateBufferArray.
MaxArrayLen == 3

\* Index reported by a failure that names no array element.
NoIndex == 0 - 1

\* LLGL_ASSERT(condition, message...): a condition that holds lets the
\* function go on; one that fails ends it there with the message (failure
\* names the message, index the element it prints).
AssertPassed == [ok |-> TRUE, failure |-> "none", index |-> NoIndex]

AssertFailed(failure, index) == [ok |-> FALSE, failure |-> failure, index |-> index]

\* A bind-flags value is the set of the bits set in it.  validBindFlags is
\* the union of the nine flags AssertCreateBuffer names.
ValidBindFlags ==
    {"VertexBuffer", "IndexBuffer", "ConstantBuffer", "Sampled", "Storage",
     "StreamOutputBuffer", "IndirectBuffer", "CopySrc", "CopyDst"}

\* Bits of a long that validBindFlags does not hold: the other BindFlags
\* entries and a bit no flag is defined for.
OtherBindFlags ==
    {"ColorAttachment", "DepthStencilAttachment", "CombinedSampler", "undefined bit"}

\* a & (~b) on bit sets
BitAndNot(a, b) == a \ b

\* The size limit compared strictly.
SizeWithinLimit_strict(size, maxSize) == size < maxSize

\* (bufferDesc.size <= maxSize)
SizeWithinLimit(size, maxSize) == size <= maxSize

\* RenderSystem::AssertCreateBuffer(bufferDesc, maxSize): the outcome and the
\* descriptor as the function leaves it (it takes it by const reference).
AssertCreateBuffer(bufferDesc, maxSize) ==
    IF ~SizeWithinLimit(bufferDesc.size, maxSize)
    THEN [outcome |-> AssertFailed("size exceeded limit", NoIndex), desc |-> bufferDesc]
    ELSE IF BitAndNot(bufferDesc.bindFlags, ValidBindFlags) # {}
    THEN [outcome |-> AssertFailed("invalid binding flags", NoIndex), desc |-> bufferDesc]
    ELSE [outcome |-> AssertPassed, desc |-> bufferDesc]

\* The element loop reporting the last null element instead of the first.
RECURSIVE FirstNullElement_last(_, _, _)
FirstNullElement_last(elems, i, numResources) ==
    IF i >= numResources THEN NoIndex
    ELSE LET later == FirstNullElement_last(elems, i + 1, numResources)
         IN  IF later # NoIndex THEN later
             ELSE IF ~elems[i + 1] THEN i ELSE NoIndex

\* for_range(i, numResources) LLGL_ASSERT(!(resourceArray[i] == nullptr), ...):
\* the index the loop fails at, from index i on (elems[i + 1] is
\* resourceArray[i], TRUE when it is not null); NoIndex when it runs through.
RECURSIVE FirstNullElement(_, _, _)
FirstNullElement(elems, i, numResources) ==
    IF i >= numResources THEN NoIndex
    ELSE IF ~elems[i + 1] THEN i
    ELSE FirstNullElement(elems, i + 1, numResources)

\* AssertCreateResourceArrayCommon(numResources, resourceArray, resourceName);
\* resourceArray is [null |-> the pointer is nullptr, elems |-> its elements].
AssertCreateResourceArrayCommon(numResources, resourceArray) ==
    IF numResources = 0 THEN AssertFailed("zero elements", NoIndex)
    ELSE IF resourceArray.null THEN AssertFailed("null pointer for array", NoIndex)
    ELSE LET i == FirstNullElement(resourceArray.elems, 0, numResources)
         IN  IF i # NoIndex
             THEN AssertFailed("null pointer for array element", i)
             ELSE AssertPassed

\* RenderSystem::AssertCreateBufferArray(numBuffers, bufferArray)
AssertCreateBufferArray(numBuffers, bufferArray) ==
    AssertCreateResourceArrayCommon(numBuffers, bufferArray)

ShaderSourceTypes == {"CodeString", "CodeFile", "BinaryBuffer", "BinaryFile"}

\* The size required of every source type.
SizeRequired_always(sourceType) == TRUE

\* shaderDesc.sourceType == ShaderSourceType::BinaryBuffer
SizeRequired(sourceType) == sourceType = "BinaryBuffer"

\* RenderSystem::AssertCreateShader(shaderDesc); shaderDesc.source is TRUE
\* when the pointer is not null.
AssertCreateShader(shaderDesc) ==
    IF ~shaderDesc.source
    THEN AssertFailed("source is a null pointer", NoIndex)
    ELSE IF SizeRequired(shaderDesc.sourceType) /\ shaderDesc.sourceSize = 0
    THEN AssertFailed("sourceSize is zero", NoIndex)
    ELSE AssertPassed

\* Sequences of length n over S
SeqsOfLen(S, n) == [1..n -> S]

\* The arrays a backend passes: the null pointer, and every array of up to
\* MaxArrayLen elements, each null or not.
ResourceArrays ==
    {[null |-> TRUE, elems |-> <<>>]}
       \cup {[null |-> FALSE, elems |-> e] :
                e \in UNION {SeqsOfLen(BOOLEAN, n) : n \in 0..MaxArrayLen}}

\* The counts passed with an array: at most the elements it has.
CountsFor(resourceArray) ==
    IF resourceArray.null THEN 0..MaxArrayLen ELSE 0..Len(resourceArray.elems)

\* Bind-flags values: every subset of the valid flags, alone and with one bit
\* outside of them.
BindFlagValues ==
    (SUBSET ValidBindFlags)
       \cup {v \cup {b} : v \in SUBSET ValidBindFlags, b \in OtherBindFlags}

\* A validation helper was called for the instance in slot s and has ended
\* with `outcome`; heap and registry as they were before the call are kept.
ValidationDone(t, s, op, args, outcome) ==
    /\ pc[t] = "idle"
    /\ handle[s] # NULL
    /\ pc' = [pc EXCEPT ![t] = "Assert_Done"]
    /\ frame' = [frame EXCEPT ![t] =
                    [op |-> op, slot |-> s, inst |-> handle[s], args |-> args,
                     outcome |-> outcome, before |-> heap, entry |-> registry]]
    /\ UNCHANGED <<debugLayer, registry, heap, probe, debugger, handle, last>>

\* The backend of the instance in slot s validates a buffer descriptor.
\* flagValues are the bind-flags values passed.
Call_AssertCreateBuffer(t, s, flagValues) ==
    /\ pc[t] = "idle"
    /\ handle[s] # NULL
    /\ \E maxSize \in 0..MaxBufferSize, size \in 0..(MaxBufferSize + 1),
          flags \in flagValues :
          LET bufferDesc == [size |-> size, bindFlags |-> flags]
              r == AssertCreateBuffer(bufferDesc, maxSize)
          IN  ValidationDone(t, s, "AssertCreateBuffer",
                  [desc |-> bufferDesc, maxSize |-> maxSize, descAfter |-> r.desc],
                  r.outcome)

\* The backend of the instance in slot s validates a buffer array.
\* arrays are the arrays passed.
Call_AssertCreateBufferArray(t, s, arrays) ==
    /\ pc[t] = "idle"
    /\ handle[s] # NULL
    /\ \E bufferArray \in arrays : \E numBuffers \in CountsFor(bufferArray) :
          ValidationDone(t, s, "AssertCreateBufferArray",
              [numBuffers |-> numBuffers, bufferArray |-> bufferArray],
              AssertCreateBufferArray(numBuffers, bufferArray))

\* The backend of the instance in slot s validates a shader descriptor.
\* types are the source types passed.
Call_AssertCreateShader(t, s, types) ==
    /\ pc[t] = "idle"
    /\ handle[s] # NULL
    /\ \E src \in BOOLEAN, type \in types, size \in 0..MaxBufferSize :
          LET shaderDesc == [source |-> src, sourceType |-> type, sourceSize |-> size]
          IN  ValidationDone(t, s, "AssertCreateShader", [desc |-> shaderDesc],
                             AssertCreateShader(shaderDesc))

\* The helper returns (or its failure has unwound) to the backend.
Assert_Return(t) ==
    /\ pc[t] = "Assert_Done"
    /\ pc' = [pc EXCEPT ![t] = "idle"]
    /\ frame' = [frame EXCEPT ![t] = IdleFrame]
    /\ UNCHANGED <<debugLayer, registry, heap, probe, debugger, handle, last>>

\* One instance is loaded and its backend calls the validation helpers with
\* every descriptor of the bounded input sets.
NextValidation ==
    \E t \in {"main"} :
        \/ Load_LoadModule(t, "first", "OpenGL", FALSE, FALSE, FALSE)
        \/ Load_BuildID(t)
        \/ Load_AllocOk(t)
        \/ Load_Debug(t)
        \/ Load_Identify(t)
        \/ Load_Register(t)
        \/ Load_Return(t)
        \/ Call_AssertCreateBuffer(t, "first", BindFlagValues)
        \/ Call_AssertCreateBufferArray(t, "first", ResourceArrays)
        \/ Call_AssertCreateShader(t, "first", ShaderSourceTypes)
        \/ Assert_Return(t)

SpecValidation == Init /\ [][NextValidation]_vars

Validated(t, op) == pc[t] = "Assert_Done" /\ frame[t].op = op

\* C11: AssertCreateBuffer passes exactly when the size is at most maxSize
\* and no bind flag lies outside the allowed set: size = maxSize with allowed
\* flags passes, size = maxSize + 1 fails, one bit outside the allowed set
\* fails whatever the other bits are, every subset of the allowed set passes
\* (with a size within the limit); the descriptor is left as it was passed.
C11_BufferLimits ==
    \A t \in Threads :
        Validated(t, "AssertCreateBuffer")
           => LET d == frame[t].args.desc
                  maxSize == frame[t].args.maxSize
                  ok == frame[t].outcome.ok
                  allowed == {"VertexBuffer", "IndexBuffer", "ConstantBuffer",
                              "Sampled", "Storage", "StreamOutputBuffer",
                              "IndirectBuffer", "CopySrc", "CopyDst"}
              IN  /\ ok <=> (d.size <= maxSize /\ d.bindFlags \subseteq allowed)
                  /\ (d.size = maxSize /\ d.bindFlags \subseteq allowed) => ok
                  /\ d.size = maxSize + 1 => ~ok
                  /\ (\E b \in d.bindFlags : b \notin allowed) => ~ok
                  /\ frame[t].args.descAfter = d

\* C11 witness: a descriptor with size = maxSize and all nine allowed flags
\* has passed.
C11_Witness ==
    \E t \in Threads :
        /\ Validated(t, "AssertCreateBuffer")
        /\ frame[t].args.desc.size = frame[t].args.maxSize
        /\ frame[t].args.maxSize = MaxBufferSize
        /\ Cardinality(frame[t].args.desc.bindFlags) = 9
        /\ frame[t].outcome.ok

\* C12: the array validation fails for a count of zero whatever the array,
\* fails for the null array pointer, otherwise fails exactly when one of the
\* first count elements is null and then reports the lowest null index; it
\* passes when the count is positive and all of these elements are non-null.
C12_ArrayValidation ==
    \A t \in Threads :
        Validated(t, "AssertCreateBufferArray")
           => LET n == frame[t].args.numBuffers
                  a == frame[t].args.bufferArray
                  o == frame[t].outcome
                  nulls == IF a.null THEN {} ELSE {i \in 0..(n - 1) : ~a.elems[i + 1]}
              IN  /\ n = 0 => ~o.ok /\ o.failure = "zero elements"
                  /\ (n > 0 /\ a.null) => ~o.ok /\ o.failure = "null pointer for array"
                  /\ (n > 0 /\ ~a.null)
                        => /\ o.ok <=> nulls = {}
                           /\ nulls # {}
                                 => /\ o.failure = "null pointer for array element"
                                    /\ o.index \in nulls
                                    /\ \A i \in nulls : o.index <= i

\* C12 witness: count 3 with only element 1 null has failed at index 1.
C12_Witness ==
    \E t \in Threads :
        /\ Validated(t, "AssertCreateBufferArray")
        /\ frame[t].args.numBuffers = 3
        /\ frame[t].args.bufferArray.elems = <<TRUE, FALSE, TRUE>>
        /\ ~frame[t].outcome.ok
        /\ frame[t].outcome.index = 1

\* C17: AssertCreateShader fails when the source pointer is null, fails when
\* the source type is BinaryBuffer and the source size is zero, and passes in
\* every other case.
C17_ShaderValidation ==
    \A t \in Threads :
        Validated(t, "AssertCreateShader")
           => LET d == frame[t].args.desc
                  o == frame[t].outcome
              IN  /\ ~d.source => ~o.ok
                  /\ (d.sourceType = "BinaryBuffer" /\ d.sourceSize = 0) => ~o.ok
                  /\ (d.source /\ ~(d.sourceType = "BinaryBuffer" /\ d.sourceSize = 0))
                        => o.ok
                  /\ (d.source /\ d.sourceType # "BinaryBuffer" /\ d.sourceSize = 0)
                        => o.ok

\* C17 witness: a source file name (not a binary buffer) with size zero has
\* passed.
C17_Witness ==
    \E t \in Threads :
        /\ Validated(t, "AssertCreateShader")
        /\ frame[t].args.desc.source
        /\ frame[t].args.desc.sourceType = "BinaryFile"
        /\ frame[t].args.desc.sourceSize = 0
        /\ frame[t].outcome.ok

(* ================= registration and the caller's handle ================ *)

\* Objects that wrap the object at p.
WrappersOf(p) == {q \in InstIds : heap[q].alive /\ heap[q].inner = p}

\* C14: a Load that returns an Instance has called register exactly once,
\* with the address of the object it returns, which no other object wraps
\* (the decorator when decorated); a Load that returns no Instance has not
\* called register; Unload of a non-empty handle passes to unregister, once,
\* the address the handle held, which is an address registered by Load.
C14_RegisterOncePerInstance ==
    \A t \in Threads :
        /\ (LoadEnded(t) /\ frame[t].result # NULL)
              => /\ frame[t].registered = <<frame[t].result>>
                 /\ WrappersOf(frame[t].result) = {}
                 /\ frame[t].debugger /\ debugLayer
                       => heap[frame[t].result].kind = "debug"
                 /\ registry.entries[frame[t].result] = frame[t].module
                 /\ registry.refs[frame[t].module]
                       = frame[t].entry.refs[frame[t].module] + 1
        /\ (LoadEnded(t) /\ frame[t].result = NULL)
              => /\ frame[t].registered = <<>>
                 /\ registry.refs = frame[t].entry.refs
                 /\ registry.entries = frame[t].entry.entries
        /\ (pc[t] \in {"Load_BuildID", "Load_Alloc", "Load_Debug", "Load_Identify",
                       "Load_Register"})
              => frame[t].registered = <<>>
        /\ (UnloadEnded(t) /\ frame[t].ref # NULL)
              => /\ frame[t].unregistered = <<frame[t].ref>>
                 /\ frame[t].entry.entries[frame[t].ref] # NullModule
        /\ (pc[t] = "idle")
              => \A s \in Slots :
                    handle[s] # NULL => registry.entries[handle[s]] # NullModule

\* C14 witness: a decorated Load has ended after registering the decorator,
\* while an earlier Unload had passed its own handle's address to unregister.
C14_Witness ==
    \E t \in Threads :
        /\ LoadEnded(t)
        /\ frame[t].result # NULL
        /\ heap[frame[t].result].kind = "debug"
        /\ frame[t].registered = <<frame[t].result>>
        /\ last.op = "Unload"

\* C18: when Unload ends the caller's handle is empty; Unload of an empty
\* handle destroys nothing, leaves the registry as it is and does not call
\* unregister; Unload of a non-empty handle calls unregister once and lowers
\* the count of the Instance's module by exactly one, no other count at all.
\* Between calls each count is the number of handles that hold an Instance of
\* the module, so no Load is ever matched by a second decrement.
C18_UnloadConsumesHandle ==
    /\ \A t \in Threads :
          UnloadEnded(t)
             => /\ handle[frame[t].slot] = NULL
                /\ frame[t].ref = NULL
                      => /\ frame[t].unregistered = <<>>
                         /\ registry = frame[t].entry
                         /\ AliveIds = frame[t].entryAlive
                /\ frame[t].ref # NULL
                      => /\ Len(frame[t].unregistered) = 1
                         /\ ~heap[frame[t].ref].alive
                         /\ \A n \in ModuleNames :
                               registry.refs[n] =
                                  frame[t].entry.refs[n]
                                     - (IF n = frame[t].module THEN 1 ELSE 0)
    /\ (\A t \in Threads : pc[t] = "idle")
          => \A n \in ModuleNames : registry.refs[n] = Cardinality(HeldOf(n))

\* C18 witness: an Unload of an empty handle has ended while another handle
\* holds an Instance, after an earlier Unload.
C18_Witness ==
    \E t \in Threads :
        /\ UnloadEnded(t)
        /\ frame[t].ref = NULL
        /\ last.op = "Unload"
        /\ \E s \in Slots : handle[s] # NULL

\* C19: a call of GetRendererInfo leaves the capabilities flag and the cached
\* capabilities of every object as they are, a call of GetRenderingCaps leaves
\* the info flag and the cached info as they are, and no step clears a
\* computed flag (or changes the value cached under it) of an object that
\* stays alive.
C19_CachesIndependent ==
    [][\A p \in InstIds :
          /\ probe'[p].infoCalls > probe[p].infoCalls
                => /\ heap'[p].pimpl.hasCaps = heap[p].pimpl.hasCaps
                   /\ heap'[p].pimpl.caps = heap[p].pimpl.caps
          /\ probe'[p].capsCalls > probe[p].capsCalls
                => /\ heap'[p].pimpl.hasInfo = heap[p].pimpl.hasInfo
                   /\ heap'[p].pimpl.info = heap[p].pimpl.info
          /\ (heap[p].alive /\ heap'[p].alive /\ heap[p].pimpl.hasInfo)
                => /\ heap'[p].pimpl.hasInfo
                   /\ heap'[p].pimpl.info = heap[p].pimpl.info
          /\ (heap[p].alive /\ heap'[p].alive /\ heap[p].pimpl.hasCaps)
                => /\ heap'[p].pimpl.hasCaps
                   /\ heap'[p].pimpl.caps = heap[p].pimpl.caps]_vars

\* C19 witness: on one Instance both caches are filled after two calls of each
\* accessor, the capabilities by the second query.
C19_Witness ==
    \E p \in InstIds :
        /\ heap[p].alive
        /\ heap[p].pimpl.hasInfo /\ probe[p].infoCalls = 2
        /\ heap[p].pimpl.hasCaps /\ probe[p].capsCalls = 2
        /\ probe[p].capsQueries = 2

(* ======================== the Instance's Report ======================== *)

\* Report::operator bool: a report that was never populated is absent.
ReportHolds(r) == r.hasErrors \/ Len(r.text) > 0

\* const Report* RenderSystem::GetReport() const: nullptr (present = FALSE)
\* or the report.
GetReport(p) ==
    IF ReportHolds(heap[p].pimpl.report)
    THEN [present |-> TRUE, report |-> heap[p].pimpl.report]
    ELSE [present |-> FALSE, report |-> EmptyReport]

\* Formats a backend passes to Errorf together with the arguments its
\* conversions need: the empty format, a text, a text with an escaped percent.
ErrorfFormats == {<<>>, <<"device lost">>, <<"usage 100", "%", "%">>}

\* void RenderSystem::Errorf(const char* format, ...), called by the backend
\* object behind slot s: formats the text and resets the report to it, marked
\* as an error.
Errorf(t, s) ==
    /\ pc[t] = "idle"
    /\ handle[s] # NULL
    /\ LET p == Innermost(heap, handle[s])
       IN  /\ probe[p].errorfCalls < MaxCalls
           /\ \E format \in ErrorfFormats : \E report \in StringPrintf(format) :
                 /\ heap' = [heap EXCEPT ![p].pimpl.report = ReportReset(report, TRUE)]
                 /\ probe' = [probe EXCEPT ![p].errorfCalls = @ + 1,
                                           ![p].lastErrorf = report]
    /\ UNCHANGED <<debugLayer, registry, debugger, handle, pc, frame, last>>

\* Descriptors a backend validates in the course of an Instance's life.
SomeBindFlagValues == {{"VertexBuffer"}, {"VertexBuffer", "ColorAttachment"}}

SomeResourceArrays ==
    {a \in ResourceArrays :
        a.null \/ a.elems \in {<<TRUE>>, <<TRUE, FALSE>>}}

SomeShaderSourceTypes == {"CodeString", "BinaryBuffer"}

\* One Instance is loaded (decorated or not), its backend reports errors and
\* validates descriptors, the caller queries it, and it is unloaded.
NextInstance ==
    \E t \in {"main"} :
        \/ \E dbg \in BOOLEAN :
              Load_LoadModule(t, "first", "OpenGL", dbg, FALSE, FALSE)
        \/ Load_BuildID(t)
        \/ Load_AllocOk(t)
        \/ Load_Debug(t)
        \/ Load_Identify(t)
        \/ Load_Register(t)
        \/ Load_Return(t)
        \/ Unload_Call(t, "first")
        \/ Unload_Step(t)
        \/ Unload_Return(t)
        \/ GetRendererInfo(t, "first")
        \/ GetRenderingCaps(t, "first")
        \/ Errorf(t, "first")
        \/ Call_AssertCreateBuffer(t, "first", SomeBindFlagValues)
        \/ Call_AssertCreateBufferArray(t, "first", SomeResourceArrays)
        \/ Call_AssertCreateShader(t, "first", SomeShaderSourceTypes)
        \/ Assert_Return(t)

SpecInstance == Init /\ [][NextInstance]_vars

\* C15 (as claimed): GetReport of a live object returns no report while
\* Errorf was never called on it; once Errorf was called it returns a report
\* with the error flag set whose text is the text of the most recent Errorf,
\* and that text is not empty.
C15_ReportOfLastErrorf ==
    \A p \in InstIds :
        heap[p].alive
           => /\ probe[p].errorfCalls = 0 => ~GetReport(p).present
              /\ probe[p].errorfCalls > 0
                    => /\ GetReport(p).present
                       /\ GetReport(p).report.hasErrors
                       /\ GetReport(p).report.text = probe[p].lastErrorf
                       /\ GetReport(p).report.text # <<>>

\* The part of C15 the code keeps: absence before the first Errorf, then a
\* report flagged as an error with the text of the most recent Errorf.
C15_ReportTracksErrorf ==
    \A p \in InstIds :
        heap[p].alive
           => /\ probe[p].errorfCalls = 0 => ~GetReport(p).present
              /\ probe[p].errorfCalls > 0
                    => /\ GetReport(p).present
                       /\ GetReport(p).report.hasErrors
                       /\ GetReport(p).report.text = probe[p].lastErrorf

\* C16 (as claimed): when a descriptor validation has failed, the report of
\* the Instance holds the failure (it is present and flagged as an error) and
\* the Instance is alive, registered, and has its identity and both caches
\* as before the call.
C16_FailedValidationReports ==
    \A t \in Threads :
        (pc[t] = "Assert_Done" /\ ~frame[t].outcome.ok)
           => LET p == frame[t].inst
                  was == frame[t].before[p].pimpl
                  now == heap[p].pimpl
              IN  /\ GetReport(p).present
                  /\ GetReport(p).report.hasErrors
                  /\ heap[p].alive
                  /\ handle[frame[t].slot] = p
                  /\ registry.entries[p] # NullModule
                  /\ registry = frame[t].entry
                  /\ now.name = was.name /\ now.rendererID = was.rendererID
                  /\ now.hasInfo = was.hasInfo /\ now.info = was.info
                  /\ now.hasCaps = was.hasCaps /\ now.caps = was.caps

\* The part of C16 the code keeps: a failed validation leaves the Instance
\* alive, registered, and its whole state as before the call.
C16_FailedValidationIsLocal ==
    \A t \in Threads :
        (pc[t] = "Assert_Done" /\ ~frame[t].outcome.ok)
           => LET p == frame[t].inst
              IN  /\ heap[p].alive
                  /\ handle[frame[t].slot] = p
                  /\ registry.entries[p] # NullModule
                  /\ registry = frame[t].entry
                  /\ heap = frame[t].before

(* ==================== concurrent Load and Unload ======================= *)

\* Positions of Load between its LoadModule and its RegisterRenderSystem.
ResolvedNotRegistered ==
    {"Load_BuildID", "Load_Alloc", "Load_Debug", "Load_Identify", "Load_Register"}

\* Thread t is about to run code of a module, or to hand the registry a
\* module handle, that is no longer resident: a call through module-> in Load,
\* or the destructor of a backend object in Unload.
UsesUnloadedModule(t) ==
    \/ /\ pc[t] \in ResolvedNotRegistered \ {"Load_Debug"}
       /\ registry.modules[frame[t].module] = 0
    \/ /\ pc[t] = "Unload_Step"
       /\ frame[t].dying # NULL
       /\ heap[frame[t].dying].kind = "backend"
       /\ registry.modules[heap[frame[t].dying].origin] = 0

\* Undefined behaviour of a call into unloaded code: besides going on as if
\* the code were still mapped (the ordinary steps), the process can fault.
UseAfterUnload(t) ==
    /\ UsesUnloadedModule(t)
    /\ pc' = [u \in Threads |-> "crashed"]
    /\ UNCHANGED <<debugLayer, registry, heap, probe, debugger, handle, frame, last>>

\* The slot each thread keeps its Instance in.
SlotOf(t) == IF t = "main" THEN "first" ELSE "second"

\* Two threads that each load an Instance of the same module into a variable
\* of their own and unload it, their statements interleaved.
NextConcurrent ==
    \E t \in Threads :
        \/ Load_LoadModule(t, SlotOf(t), "OpenGL", FALSE, FALSE, FALSE)
        \/ Load_BuildID(t)
        \/ Load_AllocOk(t)
        \/ Load_Debug(t)
        \/ Load_Identify(t)
        \/ Load_Register(t)
        \/ Load_Return(t)
        \/ Unload_Call(t, SlotOf(t))
        \/ Unload_Step(t)
        \/ Unload_Return(t)
        \/ UseAfterUnload(t)

SpecConcurrent == Init /\ [][NextConcurrent]_vars

\* C13 (as claimed): with Load and Unload of one module name running in two
\* threads, a Load that has resolved the module and not yet returned always
\* finds the module resident, no Instance is registered against a module that
\* is not resident, no thread runs code of an unloaded module, and when no
\* call is in progress no module is resident with a count of zero.
C13_ResolveRegisterAtomic ==
    /\ \A t \in Threads :
          /\ pc[t] \in ResolvedNotRegistered
                => registry.modules[frame[t].module] >= 1
          /\ ~UsesUnloadedModule(t)
          /\ pc[t] # "crashed"
    /\ \A p \in InstIds :
          registry.entries[p] # NullModule
             => registry.modules[registry.entries[p]] >= 1
    /\ (\A t \in Threads : pc[t] = "idle")
          => \A n \in ModuleNames :
                registry.modules[n] >= 1 => registry.refs[n] > 0

====
